---- MODULE Spec2Model ----
(***************************************************************************)
(* OCSP responder sources of boulder: the filterSource decorator           *)
(* (NewFilterSource, Response, checkRequest, checkResponse) and the        *)
(* InMemorySource it can wrap.                                             *)
(*                                                                         *)
(* Byte strings ([]byte) are sequences of byte values, Go strings are      *)
(* sequences of one-character strings, big.Int serials are naturals.       *)
(***************************************************************************)
EXTENDS Integers, Sequences, FiniteSets, TLC

VARIABLES
  src,      \* the filterSource in use, or NoSource
  ctor,     \* the last call of NewFilterSource: arguments and outcome
  stats,    \* the collectors registered with the prometheus.Registerer
  counter,  \* the ocsp_filter_responses counter vector, by "result" label
  logged,   \* the lines written to the logger, by level
  calls,    \* the number of completed Response calls
  last,     \* the last completed Response call
  load,     \* the call of NewMemorySourceFromFile: file, source, error, log
  lookup,   \* the last Response call on the source loaded from the file
  goroutines, \* the Response calls in flight at once: where each one stands
  frames    \* the local variables of those calls (iss, resp, err)

\* the variables of the file loader
loadVars == <<load, lookup>>
\* the variables of the calls in flight at once
concVars == <<goroutines, frames>>

vars == <<src, ctor, stats, counter, logged, calls, last, loadVars, concVars>>

(***************************************************************************)
(* Bounds of the model.                                                    *)
(***************************************************************************)
\* number of Response calls followed per run
MaxCalls == 2
\* length of the issuer-certificate list handed to NewFilterSource
MaxIssuerCerts == 2
\* length of a response file, in pieces (a whitespace or a run of text)
MaxFileLen == 4
\* number of Response calls in flight at once
NumCalls == 2
\* longest response file put behind a filter, in pieces
MaxServedFileLen == 3
\* zero-padded width of the hex form of a serial (scaled down)
SerialHexWidth == 2

(***************************************************************************)
(* Values.                                                                 *)
(***************************************************************************)
Nil == [nil |-> TRUE]
NoSource == [source |-> "none"]
\* Go maps: a nil map reads as empty, a write to it panics
EmptyEntries == [k \in {} |-> Nil]
NilMap == [allocated |-> FALSE, entries |-> EmptyEntries]
MakeMap == [allocated |-> TRUE, entries |-> EmptyEntries]

SHA1 == "SHA1"
SHA256 == "SHA256"
HashAlgorithms == {SHA1, SHA256}

Ka == <<10, 1>>
Kb == <<10, 2>>
\* a proper prefix of Ka and Kb: equal to neither
Kshort == <<10>>
KeyHashes == {Ka, Kb, Kshort}

Na == <<20, 1>>
Nb == <<20, 2>>
Nc == <<20, 3>>

\* issuance.Certificate as the filter reads it: NameID(), NameHash(), KeyHash()
CertA == [nameID |-> 1, nameHash |-> Na, keyHash |-> Ka]
CertB == [nameID |-> 2, nameHash |-> Nb, keyHash |-> Kb]
\* a second issuer certified for the key of A (the misconfiguration of 4.3)
CertC == [nameID |-> 3, nameHash |-> Nc, keyHash |-> Ka]
Certs == {CertA, CertB, CertC}

Serials == {1, 16, 255}

Labels == {"request_filtered", "wrapped_error", "response_filtered", "success"}

\* ErrNotFound, the package's sentinel; errors.New values carry only a text
ErrNotFound == [msg |-> "Request OCSP Response not found", wraps |-> Nil]
\* some other failure of a backing store
ErrBackend == [msg |-> "backend failure", wraps |-> Nil]
\* a backing store's own not-found, wrapped with context
ErrBackendNotFound == [msg |-> "backend: no row", wraps |-> ErrNotFound]

\* fmt.Errorf with and without %w
Errorf(text) == [msg |-> text, wraps |-> Nil]
ErrorfW(text, inner) == [msg |-> text, wraps |-> inner]

\* errors.Is(err, ErrNotFound): the error or one it wraps is the sentinel
RECURSIVE IsNotFound(_)
IsNotFound(err) ==
  IF err = Nil THEN FALSE
  ELSE IF err = ErrNotFound THEN TRUE
  ELSE IsNotFound(err.wraps)

(***************************************************************************)
(* Strings.                                                                *)
(***************************************************************************)
HexDigit(d) ==
  <<"0", "1", "2", "3", "4", "5", "6", "7", "8", "9",
    "a", "b", "c", "d", "e", "f">>[d + 1]

RECURSIVE Digits(_, _)
\* the digits of n in the base, most significant first, "0" for zero
Digits(n, base) ==
  IF n < base THEN <<HexDigit(n)>>
  ELSE Digits(n \div base, base) \o <<HexDigit(n % base)>>

RECURSIVE PadLeft(_, _)
PadLeft(s, width) == IF Len(s) >= width THEN s ELSE PadLeft(<<"0">> \o s, width)

\* core.SerialToString: fmt.Sprintf("%036x", serial), the width scaled down
SerialToString(serial) == PadLeft(Digits(serial, 16), SerialHexWidth)

\* big.Int.String: decimal
BigIntString(serial) == Digits(serial, 10)

\* strings.HasPrefix
HasPrefix(s, prefix) ==
  /\ Len(s) >= Len(prefix)
  /\ SubSeq(s, 1, Len(prefix)) = prefix

\* bytes.Equal comparing the lengths only
BytesEqual_SameLength(a, b) == Len(a) = Len(b)

\* bytes.Equal
BytesEqual(a, b) == a = b

(***************************************************************************)
(* Go map operations.                                                      *)
(***************************************************************************)
MapKeys(m) == DOMAIN m.entries
MapHas(m, k) == k \in DOMAIN m.entries
MapGet(m, k) == m.entries[k]
\* m[k] = v: [ok, map]; ok is FALSE when the runtime panics (nil map)
MapAssign(m, k, v) ==
  IF ~m.allocated THEN [ok |-> FALSE, map |-> m]
  ELSE [ok |-> TRUE,
        map |-> [m EXCEPT !.entries =
                   [x \in DOMAIN m.entries \cup {k} |->
                      IF x = k THEN v ELSE m.entries[x]]]]

(***************************************************************************)
(* Requests, responses, sources.                                           *)
(***************************************************************************)
\* context.Context values a caller may pass
Contexts == {"ctx", "ctxCancelled"}

\* ocsp.Request
Requests ==
  [HashAlgorithm : HashAlgorithms, IssuerNameHash : {Na, Nb},
   IssuerKeyHash : KeyHashes, SerialNumber : Serials]

\* the DER form of a response, the bytes a relying party receives
DER(serial, keyHash) == <<48, serial>> \o keyHash

\* Response: the decoded ocsp.Response fields the filter reads, and Raw
Resp(serial, keyHash) ==
  [SerialNumber |-> serial, ResponderKeyHash |-> keyHash,
   Raw |-> DER(serial, keyHash)]

Responses == {Resp(1, Ka), Resp(1, Kb), Resp(255, Kb), Resp(16, Kshort)}

\* NewMemorySource: an InMemorySource over the map it is given
NewMemorySource(responses) == [kind |-> "InMemorySource", responses |-> responses]

\* some other implementation of Source, free to answer anything
OtherSource == [kind |-> "other", responses |-> NilMap]

\* InMemorySource.Response answering only the issuer the request names
InMemorySourceResponse_IssuerAware(s, ctx, request) ==
  LET key == BigIntString(request.SerialNumber) IN
    IF ~MapHas(s.responses, key)
         \/ MapGet(s.responses, key).ResponderKeyHash # request.IssuerKeyHash
    THEN [resp |-> Nil, err |-> ErrNotFound]
    ELSE [resp |-> MapGet(s.responses, key), err |-> Nil]

\* InMemorySource.Response
InMemorySourceResponse(s, ctx, request) ==
  LET key == BigIntString(request.SerialNumber) IN
    IF ~MapHas(s.responses, key)
    THEN [resp |-> Nil, err |-> ErrNotFound]
    ELSE [resp |-> MapGet(s.responses, key), err |-> Nil]

\* what a Source may return from Response(ctx, request)
SourceResponse(s, ctx, request) ==
  IF s.kind = "InMemorySource"
  THEN {InMemorySourceResponse(s, ctx, request)}
  ELSE {[resp |-> r, err |-> Nil] : r \in Responses}
       \cup {[resp |-> Nil, err |-> e] :
               e \in {ErrNotFound, ErrBackend, ErrBackendNotFound}}

(***************************************************************************)
(* filterSource.                                                           *)
(***************************************************************************)
\* responderID of an issuer certificate (NewFilterSource, the loop body)
responderID(issuerCert) ==
  [nameHash |-> issuerCert.nameHash, keyHash |-> issuerCert.keyHash]

\* var issuersByNameId map[issuance.IssuerNameID]responderID
issuersByNameIdDecl == NilMap

RECURSIVE PopulateIssuers(_, _, _)
\* the loop of NewFilterSource from certificate i on: [ok, map]
PopulateIssuers(issuerCerts, i, m) ==
  IF i > Len(issuerCerts) THEN [ok |-> TRUE, map |-> m]
  ELSE LET w == MapAssign(m, issuerCerts[i].nameID, responderID(issuerCerts[i]))
       IN IF ~w.ok THEN w ELSE PopulateIssuers(issuerCerts, i + 1, w.map)

\* the filterSource struct
filterSource(wrapped, hashAlgorithm, issuers, serialPrefixes) ==
  [wrapped |-> wrapped, hashAlgorithm |-> hashAlgorithm,
   issuers |-> issuers, serialPrefixes |-> serialPrefixes]

\* the hash-algorithm test left out
hashAlgorithmRefused_Never(s, req) == FALSE

\* checkRequest, the hash-algorithm test: TRUE when the request is refused
hashAlgorithmRefused(s, req) == req.HashAlgorithm # s.hashAlgorithm

\* the serial-prefix test without the guard for an empty list
serialPrefixRefused_EmptyRefuses(s, req) ==
  ~\E i \in 1..Len(s.serialPrefixes) :
     HasPrefix(SerialToString(req.SerialNumber), s.serialPrefixes[i])

\* checkRequest, the serial-prefix test: TRUE when the request is refused
serialPrefixRefused(s, req) ==
  /\ Len(s.serialPrefixes) > 0
  /\ ~\E i \in 1..Len(s.serialPrefixes) :
        HasPrefix(SerialToString(req.SerialNumber), s.serialPrefixes[i])

\* the loop over the issuers with bytes.HasPrefix in the place of bytes.Equal
matchingIssuers_Prefix(s, req) ==
  {nameID \in MapKeys(s.issuers) :
     HasPrefix(MapGet(s.issuers, nameID).keyHash, req.IssuerKeyHash)}

\* checkRequest, the loop over the issuers: those whose key hash the request
\* names (the range over the map may meet any of them first)
matchingIssuers(s, req) ==
  {nameID \in MapKeys(s.issuers) :
     BytesEqual(req.IssuerKeyHash, MapGet(s.issuers, nameID).keyHash)}

\* checkRequest returning the zero name ID for a request it lets through
checkRequest_ZeroID(s, req) ==
  IF hashAlgorithmRefused(s, req)
  THEN {[iss |-> 0,
         err |-> ErrorfW("unsupported issuer key/name hash algorithm", ErrNotFound)]}
  ELSE IF serialPrefixRefused(s, req)
  THEN {[iss |-> 0, err |-> ErrorfW("unrecognized serial prefix", ErrNotFound)]}
  ELSE IF matchingIssuers(s, req) # {}
  THEN {[iss |-> 0, err |-> Nil]}
  ELSE {[iss |-> 0, err |-> ErrorfW("unrecognized issuer key hash", ErrNotFound)]}

\* filterSource.checkRequest: the (issuer, error) pairs it may return
checkRequest(s, req) ==
  IF hashAlgorithmRefused(s, req)
  THEN {[iss |-> 0,
         err |-> ErrorfW("unsupported issuer key/name hash algorithm", ErrNotFound)]}
  ELSE IF serialPrefixRefused(s, req)
  THEN {[iss |-> 0, err |-> ErrorfW("unrecognized serial prefix", ErrNotFound)]}
  ELSE IF matchingIssuers(s, req) # {}
  THEN {[iss |-> nameID, err |-> Nil] : nameID \in matchingIssuers(s, req)}
  ELSE {[iss |-> 0, err |-> ErrorfW("unrecognized issuer key hash", ErrNotFound)]}

\* checkResponse with its mismatch error tagged as not-found
checkResponse_NotFound(s, iss, resp) ==
  IF ~MapHas(s.issuers, iss) THEN Errorf("unrecognized issuer name ID")
  ELSE IF ~BytesEqual(MapGet(s.issuers, iss).keyHash, resp.ResponderKeyHash)
  THEN ErrorfW("responder does not match requested issuer", ErrNotFound)
  ELSE Nil

\* checkResponse without the comparison of the key hashes
checkResponse_AnyResponder(s, iss, resp) ==
  IF ~MapHas(s.issuers, iss) THEN Errorf("unrecognized issuer name ID")
  ELSE Nil

\* checkResponse taking the responder for the first issuer that has its key
\* hash and comparing name IDs with it
checkResponse_ByNameID(s, iss, resp) ==
  IF ~MapHas(s.issuers, iss) THEN Errorf("unrecognized issuer name ID")
  ELSE IF \/ ~BytesEqual(MapGet(s.issuers, iss).keyHash, resp.ResponderKeyHash)
          \/ \E first \in MapKeys(s.issuers) :
               /\ first < iss
               /\ BytesEqual(MapGet(s.issuers, first).keyHash,
                             resp.ResponderKeyHash)
  THEN Errorf("responder does not match requested issuer")
  ELSE Nil

\* filterSource.checkResponse
checkResponse(s, iss, resp) ==
  IF ~MapHas(s.issuers, iss) THEN Errorf("unrecognized issuer name ID")
  ELSE IF ~BytesEqual(MapGet(s.issuers, iss).keyHash, resp.ResponderKeyHash)
  THEN Errorf("responder does not match requested issuer")
  ELSE Nil

\* one statement of Response that the outside can see
Debugf(text) == [op |-> "Debugf", arg |-> text]
Warningf(ca, serial) == [op |-> "Warningf", arg |-> <<ca, serial>>]
Inc(label) == [op |-> "Inc", arg |-> label]
CallWrapped(ctx, req) == [op |-> "wrapped.Response", arg |-> <<ctx, req>>]
CallCheckRequest(req) == [op |-> "checkRequest", arg |-> req]
CallCheckResponse(iss, resp) == [op |-> "checkResponse", arg |-> <<iss, resp>>]

\* a refused request counted but not logged
requestFiltered_Unlogged(err) ==
  [resp |-> Nil, err |-> err, events |-> <<Inc("request_filtered")>>]

\* the four ways out of Response: what is returned and what was done first
requestFiltered(err) ==
  [resp |-> Nil, err |-> err,
   events |-> <<Debugf(err.msg), Inc("request_filtered")>>]

\* a wrapped-source error answered by asking the wrapped source once more
wrappedError_Retried(ctx, req, err) ==
  [resp |-> Nil, err |-> err,
   events |-> <<CallWrapped(ctx, req), CallWrapped(ctx, req),
                Inc("wrapped_error")>>]

\* a wrapped-source error returned without counting it
wrappedError_Uncounted(ctx, req, err) ==
  [resp |-> Nil, err |-> err, events |-> <<CallWrapped(ctx, req)>>]

\* a wrapped-source error replaced by the not-found sentinel
wrappedError_AsNotFound(ctx, req, err) ==
  [resp |-> Nil, err |-> ErrNotFound,
   events |-> <<CallWrapped(ctx, req), Inc("wrapped_error")>>]

wrappedError(ctx, req, err) ==
  [resp |-> Nil, err |-> err,
   events |-> <<CallWrapped(ctx, req), Inc("wrapped_error")>>]

responseFiltered(ctx, req, err) ==
  [resp |-> Nil, err |-> err,
   events |-> <<CallWrapped(ctx, req),
                Warningf(req.IssuerKeyHash, SerialToString(req.SerialNumber)),
                Inc("response_filtered")>>]

\* success releasing a copy whose Raw bytes were dropped
success_WithoutRaw(ctx, req, resp) ==
  [resp |-> [resp EXCEPT !.Raw = <<>>], err |-> Nil,
   events |-> <<CallWrapped(ctx, req), Inc("success")>>]

success(ctx, req, resp) ==
  [resp |-> resp, err |-> Nil,
   events |-> <<CallWrapped(ctx, req), Inc("success")>>]

\* the statements of a way out, after the call of checkRequest that opens
\* Response
AfterCheckRequest(req, out) ==
  [out EXCEPT !.events = <<CallCheckRequest(req)>> \o @]

\* the same when checkResponse was called too, right after the wrapped
\* source returned
AfterCheckResponse(req, iss, resp, out) ==
  [out EXCEPT !.events =
     <<CallCheckRequest(req), out.events[1], CallCheckResponse(iss, resp)>>
       \o Tail(@)]

\* filterSource.Response after checkRequest returned cr and, when it is
\* reached, the wrapped source returned w
ResponseReturn(s, ctx, req, cr, w) ==
  IF cr.err # Nil THEN AfterCheckRequest(req, requestFiltered(cr.err))
  ELSE IF w.err # Nil THEN AfterCheckRequest(req, wrappedError(ctx, req, w.err))
  ELSE IF checkResponse(s, cr.iss, w.resp) # Nil
  THEN AfterCheckResponse(req, cr.iss, w.resp,
         responseFiltered(ctx, req, checkResponse(s, cr.iss, w.resp)))
  ELSE AfterCheckResponse(req, cr.iss, w.resp, success(ctx, req, w.resp))

\* every (checkRequest result, wrapped result, return) of one Response call;
\* the wrapped source is asked only when checkRequest returned no error
ResponseRuns(s, ctx, req) ==
  UNION {IF cr.err # Nil
         THEN {[cr |-> cr, w |-> Nil, ret |-> ResponseReturn(s, ctx, req, cr, Nil)]}
         ELSE {[cr |-> cr, w |-> w, ret |-> ResponseReturn(s, ctx, req, cr, w)] :
                 w \in SourceResponse(s.wrapped, ctx, req)} :
         cr \in checkRequest(s, req)}

\* the effect of a call's statements on the counter and the log
Incs(events, label) ==
  Cardinality({i \in 1..Len(events) :
                 events[i].op = "Inc" /\ events[i].arg = label})
Logs(events, level) ==
  Cardinality({i \in 1..Len(events) : events[i].op = level})

\* NewFilterSource without the test for an empty certificate list
NewFilterSourceReturn_NoEmptyCheck(issuerCerts, serialPrefixes, wrapped) ==
  LET p == PopulateIssuers(issuerCerts, 1, issuersByNameIdDecl) IN
    IF ~p.ok
    THEN [src |-> NoSource, panic |-> TRUE, err |-> Nil]
    ELSE [src |-> filterSource(wrapped, SHA1, p.map, serialPrefixes),
          panic |-> FALSE, err |-> Nil]

\* NewFilterSource: the source and error it returns, or the panic it ends in
NewFilterSourceReturn(issuerCerts, serialPrefixes, wrapped) ==
  IF Len(issuerCerts) < 1
  THEN [src |-> NoSource, panic |-> FALSE,
        err |-> Errorf("Filter must include at least 1 issuer cert")]
  ELSE LET p == PopulateIssuers(issuerCerts, 1, issuersByNameIdDecl) IN
         IF ~p.ok
         THEN [src |-> NoSource, panic |-> TRUE, err |-> Nil]
         ELSE [src |-> filterSource(wrapped, SHA1, p.map, serialPrefixes),
               panic |-> FALSE, err |-> Nil]

(***************************************************************************)
(* NewMemorySourceFromFile.  A file is a sequence of pieces: a whitespace  *)
(* character, or a run of text without whitespace.                         *)
(***************************************************************************)
WS == " "
\* the base64 text of the DER form of three responses; R1 and R1b carry the
\* same serial
R1 == "r1"
R2 == "r2"
R1b == "r1b"
\* base64 text of bytes that are no OCSP response
NotOCSP == "xx"
\* text outside the base64 alphabet
NotBase64 == "!!"
FilePieces == {WS, R1, R2, R1b, NotOCSP, NotBase64}

\* the bytes a run of base64 text stands for
PieceBytes(piece) ==
  IF piece = R1 THEN DER(1, Ka)
  ELSE IF piece = R2 THEN DER(255, Kb)
  ELSE IF piece = R1b THEN DER(1, Kb)
  ELSE <<0>>

RECURSIVE SplitWhitespace(_, _)
\* regexp.MustCompile(`\s`).Split(contents, -1), cur being the token begun
SplitWhitespace(contents, cur) ==
  IF contents = <<>> THEN <<cur>>
  ELSE IF Head(contents) = WS
  THEN <<cur>> \o SplitWhitespace(Tail(contents), <<>>)
  ELSE SplitWhitespace(Tail(contents), Append(cur, Head(contents)))

RECURSIVE DecodedBytes(_)
DecodedBytes(b64) ==
  IF b64 = <<>> THEN <<>>
  ELSE PieceBytes(Head(b64)) \o DecodedBytes(Tail(b64))

\* base64.StdEncoding.DecodeString: (der, err)
Base64Decode(b64) ==
  IF \E i \in 1..Len(b64) : b64[i] = NotBase64
  THEN [der |-> <<>>, err |-> Errorf("illegal base64 data")]
  ELSE [der |-> DecodedBytes(b64), err |-> Nil]

\* the responses whose DER form ocsp.ParseResponse reads back
ParsableResponses ==
  {Resp(serial, keyHash) : serial \in Serials, keyHash \in KeyHashes}

\* ocsp.ParseResponse(der, nil): (response, err); the whole of der must be
\* one response
ParseResponse(der) ==
  IF \E r \in ParsableResponses : r.Raw = der
  THEN [response |-> CHOOSE r \in ParsableResponses : r.Raw = der, err |-> Nil]
  ELSE [response |-> Nil, err |-> Errorf("malformed OCSP response")]

Errf(text, b64) == [op |-> "Errf", arg |-> <<text, b64>>]
Infof(n) == [op |-> "Infof", arg |-> n]

RECURSIVE LoadTokens_StopsAtBadToken(_, _, _)
\* the loop of the loader leaving at the first token it cannot read
LoadTokens_StopsAtBadToken(responsesB64, i, acc) ==
  IF i > Len(responsesB64) THEN acc
  ELSE LET b64 == responsesB64[i]
           dec == Base64Decode(b64)
           par == ParseResponse(dec.der)
       IN IF b64 = <<>> THEN LoadTokens_StopsAtBadToken(responsesB64, i + 1, acc)
          ELSE IF dec.err # Nil
          THEN [acc EXCEPT !.log = Append(@, Errf("Base64 decode error", b64))]
          ELSE IF par.err # Nil
          THEN [acc EXCEPT !.log = Append(@, Errf("OCSP decode error", b64))]
          ELSE LoadTokens_StopsAtBadToken(responsesB64, i + 1,
                 [acc EXCEPT !.responses =
                    MapAssign(@, BigIntString(par.response.SerialNumber),
                              [par.response EXCEPT !.Raw = dec.der]).map])

RECURSIVE LoadTokens_KeyedByPosition(_, _, _)
\* the loop of the loader storing each response under its place in the file
LoadTokens_KeyedByPosition(responsesB64, i, acc) ==
  IF i > Len(responsesB64) THEN acc
  ELSE LET b64 == responsesB64[i]
           dec == Base64Decode(b64)
           par == ParseResponse(dec.der)
       IN IF b64 = <<>> THEN LoadTokens_KeyedByPosition(responsesB64, i + 1, acc)
          ELSE IF dec.err # Nil
          THEN LoadTokens_KeyedByPosition(responsesB64, i + 1,
                 [acc EXCEPT !.log = Append(@, Errf("Base64 decode error", b64))])
          ELSE IF par.err # Nil
          THEN LoadTokens_KeyedByPosition(responsesB64, i + 1,
                 [acc EXCEPT !.log = Append(@, Errf("OCSP decode error", b64))])
          ELSE LoadTokens_KeyedByPosition(responsesB64, i + 1,
                 [acc EXCEPT !.responses =
                    MapAssign(@, BigIntString(i),
                              [par.response EXCEPT !.Raw = dec.der]).map])

RECURSIVE LoadTokens(_, _, _)
\* the loop of NewMemorySourceFromFile from token i on; acc holds the map
\* and the lines logged so far
LoadTokens(responsesB64, i, acc) ==
  IF i > Len(responsesB64) THEN acc
  ELSE LET b64 == responsesB64[i]
           dec == Base64Decode(b64)
           par == ParseResponse(dec.der)
       IN IF b64 = <<>> THEN LoadTokens(responsesB64, i + 1, acc)
          ELSE IF dec.err # Nil
          THEN LoadTokens(responsesB64, i + 1,
                 [acc EXCEPT !.log = Append(@, Errf("Base64 decode error", b64))])
          ELSE IF par.err # Nil
          THEN LoadTokens(responsesB64, i + 1,
                 [acc EXCEPT !.log = Append(@, Errf("OCSP decode error", b64))])
          ELSE LoadTokens(responsesB64, i + 1,
                 [acc EXCEPT !.responses =
                    MapAssign(@, BigIntString(par.response.SerialNumber),
                              [par.response EXCEPT !.Raw = dec.der]).map])

\* ioutil.ReadFile failing
ErrReadFile == [msg |-> "open: no such file or directory", wraps |-> Nil]

\* the loader reporting the number of tokens in the place of len(responses)
NewMemorySourceFromFileReturn_CountsTokens(responseFile) ==
  IF ~responseFile.readable
  THEN [src |-> NoSource, err |-> ErrReadFile, log |-> <<>>]
  ELSE LET responsesB64 == SplitWhitespace(responseFile.contents, <<>>)
           acc == LoadTokens(responsesB64, 1,
                             [responses |-> MakeMap, log |-> <<>>])
       IN [src |-> NewMemorySource(acc.responses), err |-> Nil,
           log |-> Append(acc.log, Infof(Len(responsesB64)))]

\* NewMemorySourceFromFile: the source and error it returns and the lines
\* it logs
NewMemorySourceFromFileReturn(responseFile) ==
  IF ~responseFile.readable
  THEN [src |-> NoSource, err |-> ErrReadFile, log |-> <<>>]
  ELSE LET responsesB64 == SplitWhitespace(responseFile.contents, <<>>)
           acc == LoadTokens(responsesB64, 1,
                             [responses |-> MakeMap, log |-> <<>>])
       IN [src |-> NewMemorySource(acc.responses), err |-> Nil,
           log |-> Append(acc.log,
                          Infof(Cardinality(MapKeys(acc.responses))))]

(***************************************************************************)
(* Inputs.                                                                 *)
(***************************************************************************)
IssuerCertLists ==
  UNION {[1..n -> Certs] : n \in 0..MaxIssuerCerts}

P_0 == <<"0">>
P_1 == <<"1">>
P_ff == <<"f", "f">>
PrefixLists == {<<>>, <<P_0>>, <<P_ff>>, <<P_1, P_ff>>}

\* issuer tables: nil, or allocated and filled from a certificate list
IssuerMaps ==
  {NilMap} \cup {PopulateIssuers(l, 1, MakeMap).map : l \in IssuerCertLists}

MemKeys == {BigIntString(1), BigIntString(255)}
MemResponses == {Resp(1, Kb), Resp(255, Ka)}
MemMaps ==
  UNION {{[allocated |-> TRUE, entries |-> f] : f \in [K -> MemResponses]} :
           K \in SUBSET MemKeys}

WrappedSources == {OtherSource} \cup {NewMemorySource(m) : m \in MemMaps}

\* response files: one that cannot be read, and every readable one
ResponseFiles ==
  {[readable |-> FALSE, contents |-> <<>>]}
    \cup {[readable |-> TRUE, contents |-> c] :
            c \in UNION {[1..n -> FilePieces] : n \in 0..MaxFileLen}}

\* the requests made of a loaded source: one for each serial
LookupRequests ==
  {req \in Requests :
     /\ req.HashAlgorithm = SHA1
     /\ req.IssuerNameHash = Na
     /\ req.IssuerKeyHash = Ka}

(***************************************************************************)
(* The state machine.                                                      *)
(***************************************************************************)
NoCall == [called |-> FALSE]
NoCtor == [outcome |-> "none"]
NoLoad == [called |-> FALSE]
Goroutines == 1..NumCalls
Idle == [pc |-> "idle"]
NoFrame == [cr |-> Nil, w |-> Nil]
ZeroCounter == [l \in Labels |-> 0]
LogLevels == {"Debugf", "Warningf"}

Init ==
  /\ src = NoSource
  /\ ctor = NoCtor
  /\ stats = {}
  /\ counter = ZeroCounter
  /\ logged = [l \in LogLevels |-> 0]
  /\ calls = 0
  /\ last = NoCall
  /\ load = NoLoad
  /\ lookup = NoCall
  /\ goroutines = [g \in Goroutines |-> Idle]
  /\ frames = [g \in Goroutines |-> NoFrame]

\* NewFilterSource(issuerCerts, serialPrefixes, wrapped, stats, log)
NewFilterSource(issuerCerts, serialPrefixes, wrapped) ==
  /\ src = NoSource
  /\ ctor.outcome = "none"
  /\ LET r == NewFilterSourceReturn(issuerCerts, serialPrefixes, wrapped) IN
       /\ ctor' = [outcome |-> IF r.panic THEN "panic"
                               ELSE IF r.err # Nil THEN "error" ELSE "ok",
                   issuerCerts |-> issuerCerts,
                   serialPrefixes |-> serialPrefixes,
                   wrapped |-> wrapped,
                   src |-> r.src, err |-> r.err]
       /\ src' = r.src
  /\ UNCHANGED <<stats, counter, logged, calls, last, loadVars, concVars>>

\* a filterSource built field by field, as the package itself can build one
filterSourceLiteral(issuers, serialPrefixes, wrapped) ==
  /\ src = NoSource
  /\ ctor.outcome = "none"
  /\ src' = filterSource(wrapped, SHA1, issuers, serialPrefixes)
  /\ UNCHANGED <<ctor, stats, counter, logged, calls, last, loadVars, concVars>>

\* Response forgetting the prefix list once it has used it
Response_DropsPrefixes(ctx, req) ==
  /\ src # NoSource
  /\ calls < MaxCalls
  /\ \E run \in ResponseRuns(src, ctx, req) :
       /\ last' = [called |-> TRUE, ctx |-> ctx, req |-> req,
                   cr |-> run.cr, w |-> run.w, ret |-> run.ret]
       /\ counter' = [l \in Labels |-> counter[l] + Incs(run.ret.events, l)]
       /\ logged' = [l \in LogLevels |-> logged[l] + Logs(run.ret.events, l)]
  /\ calls' = calls + 1
  /\ src' = [src EXCEPT !.serialPrefixes = <<>>]
  /\ UNCHANGED <<ctor, stats, loadVars, concVars>>

\* filterSource.Response(ctx, req), from call to return
Response(ctx, req) ==
  /\ src # NoSource
  /\ calls < MaxCalls
  /\ \E run \in ResponseRuns(src, ctx, req) :
       /\ last' = [called |-> TRUE, ctx |-> ctx, req |-> req,
                   cr |-> run.cr, w |-> run.w, ret |-> run.ret]
       /\ counter' = [l \in Labels |-> counter[l] + Incs(run.ret.events, l)]
       /\ logged' = [l \in LogLevels |-> logged[l] + Logs(run.ret.events, l)]
  /\ calls' = calls + 1
  /\ UNCHANGED <<src, ctor, stats, loadVars, concVars>>

\* NewMemorySourceFromFile(responseFile, logger)
NewMemorySourceFromFile(responseFile) ==
  /\ ~load.called
  /\ LET r == NewMemorySourceFromFileReturn(responseFile) IN
       load' = [called |-> TRUE, file |-> responseFile,
                src |-> r.src, err |-> r.err, log |-> r.log]
  /\ UNCHANGED <<src, ctor, stats, counter, logged, calls, last, lookup,
                 concVars>>

\* InMemorySource.Response(ctx, request) on the source the loader returned
LoadedResponse(ctx, request) ==
  /\ load.called
  /\ load.src # NoSource
  /\ lookup' = [called |-> TRUE, ctx |-> ctx, req |-> request,
                ret |-> InMemorySourceResponse(load.src, ctx, request)]
  /\ UNCHANGED <<src, ctor, stats, counter, logged, calls, last, load,
                 concVars>>

Next ==
  \/ \E issuerCerts \in IssuerCertLists, serialPrefixes \in PrefixLists,
        wrapped \in WrappedSources :
        NewFilterSource(issuerCerts, serialPrefixes, wrapped)
  \/ \E issuers \in IssuerMaps, serialPrefixes \in PrefixLists,
        wrapped \in WrappedSources :
        filterSourceLiteral(issuers, serialPrefixes, wrapped)
  \/ \E ctx \in Contexts, req \in Requests : Response(ctx, req)

Spec == Init /\ [][Next]_vars

(***************************************************************************)
(* Response calls in flight at once, one goroutine each.  A call goes      *)
(* through checkRequest, the wrapped source, and the statements up to its  *)
(* return; what it keeps in between is in its own frame.                   *)
(***************************************************************************)
\* one frame for all the calls, as if iss, resp and err were shared
Local_Shared(g) == 1

\* the frame of a call: the locals iss, err and resp of Response
Local(g) == g

\* go src.Response(ctx, req)
ConcCall(g, ctx, req) ==
  /\ src # NoSource
  /\ goroutines[g].pc = "idle"
  /\ goroutines' = [goroutines EXCEPT ![g] =
                      [pc |-> "checkRequest", ctx |-> ctx, req |-> req]]
  /\ UNCHANGED <<src, ctor, stats, counter, logged, calls, last, loadVars,
                 frames>>

\* iss, err := src.checkRequest(req)
ConcCheckRequest(g) ==
  /\ goroutines[g].pc = "checkRequest"
  /\ \E cr \in checkRequest(src, goroutines[g].req) :
       /\ frames' = [frames EXCEPT ![Local(g)] = [cr |-> cr, w |-> Nil]]
       /\ goroutines' = [goroutines EXCEPT ![g].pc =
                           IF cr.err # Nil THEN "return" ELSE "wrapped"]
  /\ UNCHANGED <<src, ctor, stats, counter, logged, calls, last, loadVars>>

\* resp, err := src.wrapped.Response(ctx, req)
ConcWrapped(g) ==
  /\ goroutines[g].pc = "wrapped"
  /\ \E w \in SourceResponse(src.wrapped, goroutines[g].ctx, goroutines[g].req) :
       frames' = [frames EXCEPT ![Local(g)].w = w]
  /\ goroutines' = [goroutines EXCEPT ![g].pc = "return"]
  /\ UNCHANGED <<src, ctor, stats, counter, logged, calls, last, loadVars>>

\* the rest of Response: checkResponse, the log line, the Inc, the return
ConcReturn(g) ==
  /\ goroutines[g].pc = "return"
  /\ LET f == frames[Local(g)]
         out == ResponseReturn(src, goroutines[g].ctx, goroutines[g].req,
                               f.cr, f.w)
     IN /\ goroutines' = [goroutines EXCEPT ![g] =
                            [pc |-> "done", ctx |-> @.ctx, req |-> @.req,
                             ret |-> out]]
        /\ counter' = [l \in Labels |-> counter[l] + Incs(out.events, l)]
        /\ logged' = [l \in LogLevels |-> logged[l] + Logs(out.events, l)]
  /\ calls' = calls + 1
  /\ UNCHANGED <<src, ctor, stats, last, loadVars, frames>>

\* the sources and requests of the calls in flight at once
ConcIssuerMaps ==
  {PopulateIssuers(<<CertA, CertB>>, 1, MakeMap).map,
   PopulateIssuers(<<CertA, CertC>>, 1, MakeMap).map}
ConcPrefixLists == {<<>>, <<P_0>>}
ConcSources ==
  {NewMemorySource(m) : m \in {mm \in MemMaps : MapKeys(mm) = MemKeys}}
ConcRequests ==
  {req \in Requests :
     /\ req.IssuerNameHash = Na
     /\ \/ req.HashAlgorithm = SHA1 /\ req.IssuerKeyHash # Kshort
        \/ req.HashAlgorithm = SHA256 /\ req.IssuerKeyHash = Kshort
     /\ req.SerialNumber \in {1, 255}}

NextConc ==
  \/ \E issuers \in ConcIssuerMaps, serialPrefixes \in ConcPrefixLists,
        wrapped \in ConcSources :
        filterSourceLiteral(issuers, serialPrefixes, wrapped)
  \/ \E g \in Goroutines, req \in ConcRequests : ConcCall(g, "ctx", req)
  \/ \E g \in Goroutines : ConcCheckRequest(g)
  \/ \E g \in Goroutines : ConcWrapped(g)
  \/ \E g \in Goroutines : ConcReturn(g)

SpecConc == Init /\ [][NextConc]_vars

\* the file loader and the source it returns
NextLoad ==
  \/ \E responseFile \in ResponseFiles : NewMemorySourceFromFile(responseFile)
  \/ \E request \in LookupRequests : LoadedResponse("ctx", request)

SpecLoad == Init /\ [][NextLoad]_vars

(***************************************************************************)
(* Properties.  The last completed Response call is read from "last":      *)
(* its request, what checkRequest returned (cr), what the wrapped source   *)
(* returned (w, Nil when it was not asked) and what Response returned.     *)
(***************************************************************************)
\* checkRequest let the request of the last call through
Admitted == last.called /\ last.cr.err = Nil
\* ... and the wrapped source answered it with a response
Answered == Admitted /\ last.w.err = Nil
\* the key hash of the issuer that checkRequest matched
MatchedKeyHash == src.issuers.entries[last.cr.iss].keyHash
\* the last call asked the wrapped source
WrappedInvoked ==
  \E i \in 1..Len(last.ret.events) : last.ret.events[i].op = "wrapped.Response"

\* C1: when a request passes checkRequest and the wrapped source returns,
\* without error, a response whose responder key hash differs from the key
\* hash of the matched issuer, Response returns an error and a nil response.
C1_MismatchNeverReleased ==
  (Answered /\ last.w.resp.ResponderKeyHash # MatchedKeyHash)
    => (last.ret.err # Nil /\ last.ret.resp = Nil)

C1_Witness ==
  /\ Answered
  /\ last.w.resp.ResponderKeyHash # MatchedKeyHash
  /\ last.ret.resp = Nil

\* the scenario of C2: issuers A and B, serial 1 stored with responder Kb,
\* a SHA-1 request for serial 1 naming the key of A
ReqA1 ==
  [HashAlgorithm |-> SHA1, IssuerNameHash |-> Na, IssuerKeyHash |-> Ka,
   SerialNumber |-> 1]
MemSerial1Kb ==
  NewMemorySource([allocated |-> TRUE,
                   entries |-> (BigIntString(1) :> Resp(1, Kb))])
ResponseFilteredRun(run) ==
  /\ run.cr.err = Nil
  /\ run.w = [resp |-> Resp(1, Kb), err |-> Nil]
  /\ run.ret.err # Nil
  /\ run.ret.resp = Nil
  /\ \A l \in Labels :
       Incs(run.ret.events, l) = IF l = "response_filtered" THEN 1 ELSE 0

\* C2: NewFilterSource over issuers A and B and the in-memory source holding
\* serial 1 with responder Kb returns a source on which the request for
\* serial 1 naming Ka reaches the wrapped source, finds the entry, returns
\* an error and no response, and is counted as response_filtered.
C2_ScenarioResponseFiltered ==
  (/\ ctor.outcome # "none"
   /\ ctor.issuerCerts = <<CertA, CertB>>
   /\ ctor.serialPrefixes = <<>>
   /\ ctor.wrapped = MemSerial1Kb)
    => /\ ctor.outcome = "ok"
       /\ \A run \in ResponseRuns(ctor.src, "ctx", ReqA1) :
            ResponseFilteredRun(run)

\* C2, on a filterSource whose issuer table was allocated and filled with A
\* and B: the request of the scenario is refused by checkResponse.
C2_OnAllocatedTable ==
  (/\ last.called
   /\ src.issuers = PopulateIssuers(<<CertA, CertB>>, 1, MakeMap).map
   /\ src.wrapped = MemSerial1Kb
   /\ src.serialPrefixes = <<>>
   /\ last.req = ReqA1)
    => ResponseFilteredRun(last)

\* C3: when a request passes checkRequest and the wrapped source returns,
\* without error, a response whose responder key hash equals the key hash of
\* the matched issuer, Response returns a nil error and the very response
\* the wrapped source returned, and the success count grows by one.
C3_MatchReleasedUnchanged ==
  [][(/\ calls' = calls + 1
      /\ Answered'
      /\ last'.w.resp.ResponderKeyHash = MatchedKeyHash')
       => (/\ last'.ret.err = Nil
           /\ last'.ret.resp = last'.w.resp
           /\ counter'["success"] = counter["success"] + 1)]_vars

C3_Witness ==
  /\ Answered
  /\ last.w.resp.ResponderKeyHash = MatchedKeyHash
  /\ last.ret.resp = last.w.resp
  /\ last.ret.resp.Raw = DER(last.req.SerialNumber, last.req.IssuerKeyHash)
  /\ counter["success"] = 1

\* C4: NewFilterSource over N >= 1 distinct issuer certificates returns a
\* source and no error; the source holds one responderID per certificate,
\* and a SHA-1 request with a certificate's key hash and an allowed serial
\* passes checkRequest with that certificate's name ID.
C4_ConstructionSucceeds ==
  (/\ ctor.outcome # "none"
   /\ Len(ctor.issuerCerts) >= 1
   /\ \A i, j \in 1..Len(ctor.issuerCerts) :
        i # j => ctor.issuerCerts[i] # ctor.issuerCerts[j])
    => /\ ctor.outcome = "ok"
       /\ ctor.err = Nil
       /\ ctor.src # NoSource
       /\ Cardinality(MapKeys(ctor.src.issuers)) = Len(ctor.issuerCerts)
       /\ \A i \in 1..Len(ctor.issuerCerts) : \A req \in Requests :
            (/\ req.HashAlgorithm = SHA1
             /\ req.IssuerKeyHash = ctor.issuerCerts[i].keyHash
             /\ ~serialPrefixRefused(ctor.src, req))
              => [iss |-> ctor.issuerCerts[i].nameID, err |-> Nil]
                   \in checkRequest(ctor.src, req)

\* C5: a request whose hash algorithm is not the configured one gets a
\* not-found error and no response, and the wrapped source is not asked.
C5_WrongAlgorithmNotFound ==
  (last.called /\ last.req.HashAlgorithm # src.hashAlgorithm)
    => /\ IsNotFound(last.ret.err)
       /\ last.ret.resp = Nil
       /\ last.w = Nil
       /\ ~WrappedInvoked

C5_Witness ==
  /\ last.called
  /\ last.req.HashAlgorithm = SHA256
  /\ last.req.IssuerKeyHash = Ka
  /\ MapHas(src.issuers, CertA.nameID)
  /\ ~serialPrefixRefused(src, last.req)
  /\ IsNotFound(last.ret.err)

\* s begins with p, said character by character
StartsWith(s, p) ==
  /\ Len(p) <= Len(s)
  /\ \A j \in 1..Len(p) : s[j] = p[j]
\* the allow-list is not empty and the serial of the last request, in its
\* canonical form, starts with none of its prefixes
SerialOffList ==
  /\ src.serialPrefixes # <<>>
  /\ \A i \in 1..Len(src.serialPrefixes) :
       ~StartsWith(SerialToString(last.req.SerialNumber), src.serialPrefixes[i])
\* the last call was refused for its serial prefix
RefusedForSerial ==
  /\ last.ret.err # Nil
  /\ last.ret.err.msg = "unrecognized serial prefix"
\* what a request refused by checkRequest gets
NotFoundUnasked ==
  /\ IsNotFound(last.ret.err)
  /\ last.ret.resp = Nil
  /\ last.w = Nil
  /\ ~WrappedInvoked

\* C6 as stated: a request is refused for its serial prefix exactly when the
\* allow-list is not empty and the serial's canonical form starts with none
\* of the prefixes; it then gets not-found and the wrapped source is not
\* asked; with an empty allow-list no request is refused for its serial.
C6_RefusedIffOffList ==
  last.called =>
    /\ RefusedForSerial <=> SerialOffList
    /\ SerialOffList => NotFoundUnasked
    /\ src.serialPrefixes = <<>> => ~RefusedForSerial

\* C6 as amended: the equivalence holds for the requests that carry the
\* configured hash algorithm (the algorithm is tested first and a request
\* with another algorithm is refused for that); every request whose serial
\* is off a non-empty list gets not-found and the wrapped source is not
\* asked; with an empty allow-list no request is refused for its serial.
C6_RefusedIffOffListForAlgorithm ==
  last.called =>
    /\ last.req.HashAlgorithm = src.hashAlgorithm
         => (RefusedForSerial <=> SerialOffList)
    /\ RefusedForSerial => SerialOffList
    /\ SerialOffList => NotFoundUnasked
    /\ src.serialPrefixes = <<>> => ~RefusedForSerial

C6_Witness ==
  /\ last.called
  /\ last.req.HashAlgorithm = SHA1
  /\ Len(src.serialPrefixes) = 2
  /\ SerialOffList
  /\ RefusedForSerial
  /\ MapHas(src.issuers, CertA.nameID)
  /\ last.req.IssuerKeyHash = Ka

\* C7: a request whose issuer key hash equals, byte for byte, the key hash
\* of no configured issuer gets a not-found error and no response, and the
\* wrapped source is not asked.
C7_UnknownIssuerNotFound ==
  (/\ last.called
   /\ \A nameID \in DOMAIN src.issuers.entries :
        src.issuers.entries[nameID].keyHash # last.req.IssuerKeyHash)
    => NotFoundUnasked

C7_Witness ==
  /\ last.called
  /\ last.req.HashAlgorithm = SHA1
  /\ ~SerialOffList
  /\ MapHas(src.issuers, CertA.nameID)
  /\ last.req.IssuerKeyHash = Kshort
  /\ last.ret.err.msg = "unrecognized issuer key hash"

\* the error of NewFilterSource for an empty certificate list
ConfigurationError == Errorf("Filter must include at least 1 issuer cert")

\* C8: NewFilterSource with an empty certificate list returns the
\* configuration error and no source, whatever its other arguments; no
\* Response call returns that error.
C8_EmptyListRefused ==
  /\ (ctor.outcome # "none" /\ Len(ctor.issuerCerts) = 0)
       => /\ ctor.outcome = "error"
          /\ ctor.err = ConfigurationError
          /\ ctor.src = NoSource
          /\ src = NoSource
  /\ last.called
       => /\ last.ret.err # ConfigurationError
          /\ last.ret.err # Nil => last.ret.err.wraps # ConfigurationError

C8_Witness ==
  /\ ctor.outcome = "error"
  /\ ctor.issuerCerts = <<>>
  /\ ctor.serialPrefixes # <<>>
  /\ ctor.wrapped # OtherSource
  /\ src = NoSource

\* the sum of the four outcome counts
CounterSum ==
  counter["request_filtered"] + counter["wrapped_error"]
    + counter["response_filtered"] + counter["success"]

\* C9: every completed Response call adds one to exactly one of the four
\* outcome counts and leaves the other three as they were; the four counts
\* always add up to the number of completed calls.
C9_OneCountPerCall ==
  /\ [](CounterSum = calls)
  /\ [][calls' = calls + 1
          => \E l \in Labels : counter' = [counter EXCEPT ![l] = @ + 1]]_vars

C9_Witness ==
  /\ calls = MaxCalls
  /\ CounterSum = MaxCalls
  /\ counter["wrapped_error"] = 1
  /\ counter["response_filtered"] = 1

\* C10: when a request passes checkRequest and the wrapped source returns
\* an error, Response returns that very error and no response and counts a
\* wrapped_error; a not-found error stays not-found and any other error
\* stays other than not-found.
C10_WrappedErrorUnchanged ==
  (Admitted /\ last.w.err # Nil)
    => /\ last.ret.err = last.w.err
       /\ last.ret.resp = Nil
       /\ \A l \in Labels :
            Incs(last.ret.events, l) = IF l = "wrapped_error" THEN 1 ELSE 0
       /\ IsNotFound(last.ret.err) <=> IsNotFound(last.w.err)

C10_Witness ==
  /\ Admitted
  /\ last.w.err = ErrBackend
  /\ last.ret.err = ErrBackend
  /\ ~IsNotFound(last.ret.err)
  /\ counter["wrapped_error"] = 1

\* the places of the last call's statements of one kind, in program order
EventsAt(op) ==
  {i \in 1..Len(last.ret.events) : last.ret.events[i].op = op}

\* C11: in one Response call the wrapped source is asked at most once, only
\* when checkRequest returned no error, after checkRequest and before
\* checkResponse, with the caller's context and request as they came; a call
\* that ends in an error has asked it no second time.
C11_WrappedAskedOnce ==
  last.called =>
    /\ Cardinality(EventsAt("wrapped.Response")) <= 1
    /\ EventsAt("wrapped.Response") # {} => last.cr.err = Nil
    /\ \A i \in EventsAt("wrapped.Response") :
         /\ last.ret.events[i].arg = <<last.ctx, last.req>>
         /\ \E j \in EventsAt("checkRequest") : j < i
         /\ \A k \in EventsAt("checkResponse") : i < k

C11_Witness ==
  /\ Admitted
  /\ last.ctx = "ctxCancelled"
  /\ last.w.err = ErrBackend
  /\ Cardinality(EventsAt("wrapped.Response")) = 1
  /\ EventsAt("checkResponse") = {}
  /\ calls = MaxCalls

\* C12: no Response call changes the issuer table, the prefix list, the hash
\* algorithm or the wrapped source, and with it the map and the stored
\* responses of a wrapped InMemorySource.
C12_ResponseLeavesSourceAlone ==
  [][calls' = calls + 1
       => /\ src'.issuers = src.issuers
          /\ src'.serialPrefixes = src.serialPrefixes
          /\ src'.hashAlgorithm = src.hashAlgorithm
          /\ src'.wrapped = src.wrapped]_vars

C12_Witness ==
  /\ calls = MaxCalls
  /\ counter["success"] = 1
  /\ counter["request_filtered"] = 1
  /\ src.wrapped.kind = "InMemorySource"
  /\ src.serialPrefixes # <<>>
  /\ Cardinality(MapKeys(src.issuers)) = 2

\* C14: InMemorySource.Response returns the response stored under the
\* decimal string of the request's serial, or ErrNotFound when there is
\* none; a request with the same serial and any other hash algorithm,
\* issuer name hash or issuer key hash gets the same result.
C14_LookupBySerialOnly ==
  (Admitted /\ src.wrapped.kind = "InMemorySource")
    => /\ last.w =
            IF BigIntString(last.req.SerialNumber)
                 \in DOMAIN src.wrapped.responses.entries
            THEN [resp |-> src.wrapped.responses.entries[
                             BigIntString(last.req.SerialNumber)],
                  err |-> Nil]
            ELSE [resp |-> Nil, err |-> ErrNotFound]
       /\ \A other \in Requests : \A ctx \in Contexts :
            other.SerialNumber = last.req.SerialNumber
              => InMemorySourceResponse(src.wrapped, ctx, other) = last.w

C14_Witness ==
  /\ Admitted
  /\ src.wrapped.kind = "InMemorySource"
  /\ last.req.SerialNumber = 255
  /\ last.req.IssuerKeyHash = Kb
  /\ <<"2", "5", "5">> \in DOMAIN src.wrapped.responses.entries
  /\ last.w.resp = src.wrapped.responses.entries[<<"2", "5", "5">>]
  /\ last.w.resp.ResponderKeyHash = Ka

\* C16 as stated: on each of the three error outcomes the error is returned
\* after both a count increment and a log line.
C16_CountedAndLogged ==
  (last.called /\ last.ret.err # Nil)
    => /\ EventsAt("Inc") # {}
       /\ EventsAt("Debugf") \cup EventsAt("Warningf") # {}

\* C16 as amended: on each of the three error outcomes the error is returned
\* after one count increment; a refused request has one Debugf line before
\* it and a refused response one Warningf line naming the request's issuer
\* key hash and serial; a wrapped-source error is returned without a log
\* line.
C16_CountedAndFilteringLogged ==
  (last.called /\ last.ret.err # Nil)
    => /\ Cardinality(EventsAt("Inc")) = 1
       /\ last.cr.err # Nil
            => /\ Cardinality(EventsAt("Debugf")) = 1
               /\ EventsAt("Warningf") = {}
       /\ (last.cr.err = Nil /\ last.w.err = Nil)
            => /\ EventsAt("Debugf") = {}
               /\ \E i \in 1..Len(last.ret.events) :
                    last.ret.events[i] =
                      Warningf(last.req.IssuerKeyHash,
                               SerialToString(last.req.SerialNumber))
               /\ Cardinality(EventsAt("Warningf")) = 1
       /\ (last.cr.err = Nil /\ last.w.err # Nil)
            => EventsAt("Debugf") \cup EventsAt("Warningf") = {}

C16_Witness ==
  /\ calls = MaxCalls
  /\ counter["request_filtered"] = 1
  /\ logged["Debugf"] = 1
  /\ last.cr.err = Nil
  /\ last.w.err = ErrNotFound
  /\ last.ret.err = ErrNotFound
  /\ counter["wrapped_error"] = 1
  /\ logged["Warningf"] = 0

\* C17: the error for a request refused by checkRequest (hash algorithm,
\* serial prefix, issuer key hash) is of the not-found kind; the error for
\* a response refused by checkResponse is a plain error, not of that kind.
C17_RequestSideNotFoundResponseSidePlain ==
  last.called =>
    /\ last.cr.err # Nil
         => (last.ret.err = last.cr.err /\ IsNotFound(last.ret.err))
    /\ (Answered /\ last.ret.err # Nil)
         => (~IsNotFound(last.ret.err) /\ last.ret.err.wraps = Nil)

C17_Witness ==
  /\ calls = MaxCalls
  /\ counter["request_filtered"] = 1
  /\ Answered
  /\ last.w.resp.ResponderKeyHash # MatchedKeyHash
  /\ last.ret.err = Errorf("responder does not match requested issuer")

\* name IDs tried against checkResponse
ProbeNameIDs == {0, 1, 2, 3}

\* C18: the name ID that checkRequest hands to checkResponse is a key of the
\* issuer table, so Response never returns the "unrecognized issuer name ID"
\* error; for a name ID that is no key checkResponse returns an error that
\* is not of the not-found kind.
C18_IssuerAlwaysRecognized ==
  /\ Admitted
       => /\ last.cr.iss \in DOMAIN src.issuers.entries
          /\ last.ret.err # Nil
               => last.ret.err.msg # "unrecognized issuer name ID"
  /\ src # NoSource
       => \A iss \in ProbeNameIDs \ DOMAIN src.issuers.entries :
            \A resp \in Responses :
              /\ checkResponse(src, iss, resp) # Nil
              /\ ~IsNotFound(checkResponse(src, iss, resp))

C18_Witness ==
  /\ Answered
  /\ Cardinality(DOMAIN src.issuers.entries) = 2
  /\ last.cr.iss = CertC.nameID
  /\ EventsAt("checkResponse") # {}
  /\ last.ret.err = Nil

\* C19: once NewFilterSource has got past its test of the certificate list
\* it returns a source whose outcome counter is registered with the
\* Registerer it was given.
C19_CounterRegistered ==
  ctor.outcome \notin {"none", "error"}
    => /\ ctor.src # NoSource
       /\ "ocsp_filter_responses" \in stats

(***************************************************************************)
(* Properties of the file loader.                                          *)
(***************************************************************************)
\* the file was read
Loaded == load.called /\ load.file.readable
\* the tokens of the file
Tokens == SplitWhitespace(load.file.contents, <<>>)
\* token i both base64-decodes and parses as an OCSP response
ValidToken(i) ==
  /\ Base64Decode(Tokens[i]).err = Nil
  /\ ParseResponse(Base64Decode(Tokens[i]).der).err = Nil
ValidTokens == {i \in 1..Len(Tokens) : ValidToken(i)}
\* the serial of the response in a valid token
TokenSerial(i) ==
  ParseResponse(Base64Decode(Tokens[i]).der).response.SerialNumber
\* the tokens that are neither empty nor valid
MalformedTokens == {i \in 1..Len(Tokens) : Tokens[i] # <<>> /\ ~ValidToken(i)}
\* the error lines the loader wrote
ErrfLines == {k \in 1..Len(load.log) : load.log[k].op = "Errf"}
\* the number the loader reported in its last line
ReportedCount == load.log[Len(load.log)].arg
\* a request for a serial, as made of the loaded source
SerialRequest(serial) ==
  [HashAlgorithm |-> SHA1, IssuerNameHash |-> Na, IssuerKeyHash |-> Ka,
   SerialNumber |-> serial]

C20_CountIsValidTokens ==
  Loaded => ReportedCount = Cardinality(ValidTokens)

\* C20 as amended: the count reported is the number of responses the source
\* holds, one for each serial carried by a token that decoded and parsed;
\* it is the number of those tokens when no two of them carry the same
\* serial.
C20_CountIsDistinctSerials ==
  Loaded
    => /\ load.log[Len(load.log)].op = "Infof"
       /\ ReportedCount = Cardinality({TokenSerial(i) : i \in ValidTokens})
       /\ ReportedCount = Cardinality(DOMAIN load.src.responses.entries)
       /\ (\A i, j \in ValidTokens : i # j => TokenSerial(i) # TokenSerial(j))
            => ReportedCount = Cardinality(ValidTokens)

\* two valid tokens with the same serial: one is reported, and the later
\* one is the one the source answers with
C20_Witness ==
  /\ Loaded
  /\ load.file.contents = <<R1, WS, R1b>>
  /\ Cardinality(ValidTokens) = 2
  /\ ReportedCount = 1
  /\ InMemorySourceResponse(load.src, "ctx", SerialRequest(1)).resp = Resp(1, Kb)

(***************************************************************************)
(* A filterSource over the source NewMemorySourceFromFile returned.        *)
(***************************************************************************)
\* a filterSource whose wrapped field is the loaded source
filterSourceOverFile(issuers, serialPrefixes) ==
  /\ load.called
  /\ load.src # NoSource
  /\ filterSourceLiteral(issuers, serialPrefixes, load.src)

\* the files, filters and requests of a filter over a loaded source
ServedPieces == {WS, R1, R2, R1b}
ServedFiles ==
  {[readable |-> TRUE, contents |-> c] :
     c \in UNION {[1..n -> ServedPieces] : n \in 0..MaxServedFileLen}}
ServedRequests ==
  {req \in Requests :
     /\ req.HashAlgorithm = SHA1
     /\ req.IssuerNameHash = Na
     /\ req.IssuerKeyHash # Kshort
     /\ req.SerialNumber \in {1, 255}}

NextServe ==
  \/ \E responseFile \in ServedFiles : NewMemorySourceFromFile(responseFile)
  \/ \E issuers \in ConcIssuerMaps, serialPrefixes \in ConcPrefixLists :
        filterSourceOverFile(issuers, serialPrefixes)
  \/ \E req \in ServedRequests : Response("ctx", req)

SpecServe == Init /\ [][NextServe]_vars

(***************************************************************************)
(* Properties of the responses Response releases.                          *)
(***************************************************************************)
\* the last call returned a response to its caller
Released == last.called /\ last.ret.resp # Nil

\* C21: after any sequence of calls, on any issuer table and prefix list and
\* whatever the wrapped source answered, a response that Response returned
\* has the responder key hash that its request names as issuer key hash,
\* byte for byte, and that key hash is the one of a configured issuer.
C21_ReleasedMatchesRequest ==
  Released
    => /\ last.ret.resp.ResponderKeyHash = last.req.IssuerKeyHash
       /\ \E nameID \in MapKeys(src.issuers) :
            MapGet(src.issuers, nameID).keyHash = last.req.IssuerKeyHash

\* a response released after an earlier call, by a filter with two issuers
\* and a prefix list over a source free to answer anything
C21_Witness ==
  /\ Released
  /\ calls = MaxCalls
  /\ src.wrapped.kind = "other"
  /\ Cardinality(MapKeys(src.issuers)) = 2
  /\ src.serialPrefixes # <<>>
  /\ last.req.IssuerKeyHash = Kb
  /\ last.ret.resp.ResponderKeyHash = Kb

\* the runs of the last call's inputs in which the wrapped source gives the
\* result it gave in the last call
SameInputRuns ==
  {run \in ResponseRuns(src, last.ctx, last.req) : run.w = last.w}

\* C22: every run of Response on the configuration, the request and the
\* wrapped source's result of the last call returns the response and the
\* error the last call returned and counts the outcome it counted, whichever
\* of the issuers sharing the request's key hash checkRequest returned.
C22_OutcomeDetermined ==
  last.called
    => \A run \in SameInputRuns :
         /\ run.ret.resp = last.ret.resp
         /\ run.ret.err = last.ret.err
         /\ \A l \in Labels :
              Incs(run.ret.events, l) = Incs(last.ret.events, l)

\* issuers A and C share the key hash the request names, checkRequest may
\* return either, it returned C, and the response was released
C22_Witness ==
  /\ last.called
  /\ {CertA.nameID, CertC.nameID} \subseteq MapKeys(src.issuers)
  /\ last.req.IssuerKeyHash = Ka
  /\ {run.cr.iss : run \in SameInputRuns} = {CertA.nameID, CertC.nameID}
  /\ last.cr.iss = CertC.nameID
  /\ last.ret.resp # Nil
  /\ Incs(last.ret.events, "success") = 1

\* C23: a response released by a filterSource whose wrapped source came from
\* NewMemorySourceFromFile has the serial number of the request it answers.
C23_ReleasedSerialIsRequested ==
  (Released /\ Loaded /\ src.wrapped = load.src)
    => last.ret.resp.SerialNumber = last.req.SerialNumber

\* a file with responses for two serials, and the second one released to a
\* request for its serial after an earlier call
C23_Witness ==
  /\ Released
  /\ Loaded
  /\ src.wrapped = load.src
  /\ load.file.contents = <<R1b, WS, R2>>
  /\ calls = MaxCalls
  /\ last.req.SerialNumber = 255
  /\ last.ret.resp = Resp(255, Kb)

(***************************************************************************)
(* Properties of the calls in flight at once.                              *)
(***************************************************************************)
\* what call g returns when no other call runs
AloneReturns(g) ==
  {[resp |-> run.ret.resp, err |-> run.ret.err] :
     run \in ResponseRuns(src, goroutines[g].ctx, goroutines[g].req)}

\* each call in flight reads from its frame what it wrote there itself and
\* returns what it returns alone; the counts add up to the finished calls
EachCallAsAlone ==
  /\ \A g \in Goroutines :
       /\ goroutines[g].pc \in {"wrapped", "return"}
            => frames[Local(g)].cr \in checkRequest(src, goroutines[g].req)
       /\ (goroutines[g].pc = "return" /\ frames[Local(g)].cr.err = Nil)
            => frames[Local(g)].w
                 \in SourceResponse(src.wrapped, goroutines[g].ctx,
                                    goroutines[g].req)
       /\ goroutines[g].pc = "done"
            => AloneReturns(g) =
                 {[resp |-> goroutines[g].ret.resp,
                   err |-> goroutines[g].ret.err]}
  /\ CounterSum = calls
  /\ (\A g \in Goroutines : goroutines[g].pc = "done")
       => CounterSum = NumCalls

\* C13: under every interleaving of the steps of the calls in flight, each
\* call returns the response or error it returns when run alone, what a
\* call reads from its frame is what it wrote there itself, once all calls
\* have finished the four counts add up to their number, and no step of a
\* call writes the filter source or the in-memory source it wraps.
C13_CallsDoNotInterfere ==
  /\ []EachCallAsAlone
  /\ [][src # NoSource => src' = src]_vars

\* two calls in flight at once, one refused by checkResponse and one
\* released, both finished
C13_Witness ==
  /\ \A g \in Goroutines : goroutines[g].pc = "done"
  /\ goroutines[1].req # goroutines[2].req
  /\ goroutines[1].ret.err = Errorf("responder does not match requested issuer")
  /\ goroutines[2].ret.err = Nil
  /\ goroutines[2].ret.resp = Resp(1, Kb)
  /\ CounterSum = NumCalls

====
